---- MODULE Spec2Model ----
\* Model of the stub Qt backend, desktop/qt_stub.cpp: the widget registry
\* (make_widget under g_mu), the widget operations of the C facade and the
\* simulated event loop (qt_main / qt_main_quit on the atomic flag g_running),
\* called from several host threads.
EXTENDS Integers, Sequences, FiniteSets, TLC

\* ---------------------------------------------------------------- bounds
NumThreads == 2
MaxWidgets == 2
MaxCalls == 4

Threads == 1..NumThreads

\* ------------------------------------------------------------ data model
\* nullptr for Widget* and void* handles
NULL == 0
\* Addresses operator new may return, and one address that is no Widget.
Addrs == 101..(100 + MaxWidgets)
Foreign == 100 + MaxWidgets + 1

\* g_mu: 0 when unlocked, else the thread holding it
Unlocked == 0

\* A const char* argument is <<>> (a null pointer) or <<s>> (pointing to s).
NullStr == <<>>
Str(s) == <<s>>

\* `p ? p : d` on a const char*
OrElse(p, d) == IF p = NullStr THEN d ELSE p[1]

\* struct Widget with its default member initialisers
NewWidget ==
    [kind |-> "Generic", title |-> "", label |-> "", width |-> 0,
     height |-> 0, parent |-> NULL, id |-> 0]

\* The inputs the host passes
TitleArgs == {Str("App")}
SetTitleArgs == {NullStr, Str("Confirm")}
LabelArgs == {NullStr, Str(""), Str("OK")}
WidthArgs == {0, 640}
HeightArgs == {-1, 480}
EnvValues == {NullStr, Str("0"), Str("1")}
VerboseArgs == {0, 1}

VARIABLES
    g_running,   \* std::atomic<bool> g_running
    g_mu,        \* std::mutex g_mu
    g_verbose,   \* bool g_verbose
    next_id,     \* int next_id
    registry,    \* std::vector<Widget*> registry
    heap,        \* the Widget objects made by new, by address
    pc,          \* where each thread is
    frame,       \* the arguments and locals of the call each thread is in
    last,        \* the facade call that completed last: its arguments and result
    calls,       \* number of facade calls made so far
    quit_seen,   \* history: a qt_main_quit store followed this thread's store(true)
    fault        \* the process has crashed

vars == <<g_running, g_mu, g_verbose, next_id, registry, heap, pc, frame,
          last, calls, quit_seen, fault>>

\* A thread that is in no call has the empty frame.
NoFrame ==
    [op |-> "none", r |-> FALSE, q |-> FALSE, s |-> NullStr, w |-> 0, ht |-> 0,
     self |-> NULL, tmp |-> 0]

\* A blocking or multi-step call starts: its arguments go to the thread's frame.
\* A qt_main frame has two history fields: r, whether the loop was already
\* Running (flag set, another thread polling it) when the call was made, and q,
\* whether the last call to complete before this one was a qt_main_quit.
Enter(op, s, w, ht) ==
    [op |-> op,
     r |-> op = "main" /\ g_running
             /\ \E u \in Threads : pc[u] \in {"main_load", "main_sleep"},
     q |-> op = "main" /\ last.op = "main_quit",
     s |-> s, w |-> w, ht |-> ht, self |-> NULL, tmp |-> 0]

\* A completed call: its name, handle arguments, text argument, sizes, result.
Done(op, h, p, s, w, ht, ret) ==
    [op |-> op, h |-> h, p |-> p, s |-> s, w |-> w, ht |-> ht, ret |-> ret]

NoCall == Done("none", NULL, NULL, NullStr, 0, 0, 0)

\* Handles the host holds: those a constructor has returned.
Returned ==
    {a \in DOMAIN heap :
        \A t \in Threads : ~(pc[t] # "ready" /\ frame[t].self = a)}

\* What a host that keeps to the handles it was given passes, and what a host
\* that also passes a pointer to something else passes.
HandleArgs == {NULL} \cup Returned
WildHandleArgs == {NULL, Foreign} \cup Returned

CanCall(t) == ~fault /\ pc[t] = "ready" /\ calls < MaxCalls
At(t, l) == ~fault /\ pc[t] = l

Init ==
    /\ g_running = FALSE
    /\ g_mu = Unlocked
    /\ g_verbose = TRUE
    /\ next_id = 1
    /\ registry = <<>>
    /\ heap = <<>>
    /\ pc = [t \in Threads |-> "ready"]
    /\ frame = [t \in Threads |-> NoFrame]
    /\ last = NoCall
    /\ calls = 0
    /\ quit_seen = [t \in Threads |-> FALSE]
    /\ fault = FALSE

\* ------------------------------------------------------------ dump_widget
\* dump_widget(w) evaluates w->parent->id whenever w->parent is not null, with
\* tracing on or off. Reading through a pointer that is no Widget is undefined:
\* the process may crash or go on. The outcomes for `fault`:
dump_widget(w) ==
    IF heap'[w].parent # NULL /\ heap'[w].parent \notin DOMAIN heap'
    THEN BOOLEAN ELSE {FALSE}

\* Writing or reading through a non-null handle that is no Widget is undefined
\* as well: a crash, or an access that lands outside every Widget.
WildAccess == BOOLEAN

\* The call returns, unless the process crashed in it.
Completes(d) == last' = IF fault' THEN last ELSE d

\* --------------------------------------------------- qt_set_verbose, qt_init
qt_set_verbose(t, on) ==
    /\ CanCall(t)
    /\ g_verbose' = (on # 0)
    /\ last' = Done("set_verbose", NULL, NULL, NullStr, on, 0, 0)
    /\ calls' = calls + 1
    /\ UNCHANGED <<g_running, g_mu, next_id, registry, heap, pc, frame,
                   quit_seen, fault>>

\* v is what getenv("QT_STUB_VERBOSE") returns
qt_init(t, v) ==
    /\ CanCall(t)
    /\ g_verbose' = IF v # NullStr THEN (v[1] # "0") ELSE g_verbose
    /\ last' = Done("init", NULL, NULL, v, 0, 0, 0)
    /\ calls' = calls + 1
    /\ UNCHANGED <<g_running, g_mu, next_id, registry, heap, pc, frame,
                   quit_seen, fault>>

\* ------------------------------------------------------------- make_widget
\* make_widget with the kind argument dropped: the Widget keeps Kind::Generic.
KindArg_dropped(t) == "Generic"

\* The kind the running constructor passes to make_widget
KindArg(t) == IF frame[t].op = "window_new" THEN "Window" ELSE "Button"

\* The host makes no more than MaxWidgets widgets.
RoomForWidget ==
    Cardinality(DOMAIN heap)
      + Cardinality({u \in Threads : pc[u] = "mw_lock"})
      < MaxWidgets

\* make_widget without the lock_guard: nothing waits for g_mu.
make_widget_lock_unguarded(t) ==
    /\ At(t, "mw_lock")
    /\ g_mu' = t
    /\ \E a \in Addrs \ DOMAIN heap :
        /\ heap' = heap @@ (a :> [NewWidget EXCEPT !.kind = KindArg(t)])
        /\ frame' = [frame EXCEPT ![t].self = a]
    /\ pc' = [pc EXCEPT ![t] = "mw_read"]
    /\ UNCHANGED <<g_running, g_verbose, next_id, registry, last, calls,
                   quit_seen, fault>>

\* std::lock_guard<std::mutex> lock(g_mu); auto* w = new Widget(); w->kind = k;
\* (the new Widget is reachable from this thread alone until it is pushed)
make_widget_lock(t) ==
    /\ At(t, "mw_lock")
    /\ g_mu = Unlocked
    /\ g_mu' = t
    /\ \E a \in Addrs \ DOMAIN heap :
        /\ heap' = heap @@ (a :> [NewWidget EXCEPT !.kind = KindArg(t)])
        /\ frame' = [frame EXCEPT ![t].self = a]
    /\ pc' = [pc EXCEPT ![t] = "mw_read"]
    /\ UNCHANGED <<g_running, g_verbose, next_id, registry, last, calls,
                   quit_seen, fault>>

\* w->id = next_id++ : the read of next_id ...
make_widget_read(t) ==
    /\ At(t, "mw_read")
    /\ frame' = [frame EXCEPT ![t].tmp = next_id]
    /\ pc' = [pc EXCEPT ![t] = "mw_write"]
    /\ UNCHANGED <<g_running, g_mu, g_verbose, next_id, registry, heap, last,
                   calls, quit_seen, fault>>

\* w->id = next_id++ with the counter stepped by two
make_widget_write_skip(t) ==
    /\ At(t, "mw_write")
    /\ next_id' = frame[t].tmp + 2
    /\ heap' = [heap EXCEPT ![frame[t].self].id = frame[t].tmp]
    /\ pc' = [pc EXCEPT ![t] = "mw_push"]
    /\ UNCHANGED <<g_running, g_mu, g_verbose, registry, frame, last, calls,
                   quit_seen, fault>>

\* ... and the writes of next_id and w->id
make_widget_write(t) ==
    /\ At(t, "mw_write")
    /\ next_id' = frame[t].tmp + 1
    /\ heap' = [heap EXCEPT ![frame[t].self].id = frame[t].tmp]
    /\ pc' = [pc EXCEPT ![t] = "mw_push"]
    /\ UNCHANGED <<g_running, g_mu, g_verbose, registry, frame, last, calls,
                   quit_seen, fault>>

\* registry.push_back(w); return w;  (leaving the scope, the lock_guard
\* unlocks g_mu)
make_widget_push(t) ==
    /\ At(t, "mw_push")
    /\ registry' = Append(registry, frame[t].self)
    /\ g_mu' = IF g_mu = t THEN Unlocked ELSE g_mu
    /\ pc' = [pc EXCEPT ![t] =
                IF frame[t].op = "window_new" THEN "wn_title" ELSE "bn_label"]
    /\ UNCHANGED <<g_running, g_verbose, next_id, heap, frame, last, calls,
                   quit_seen, fault>>

\* ----------------------------------------------------------- qt_window_new
qt_window_new(t, title, w, h) ==
    /\ CanCall(t)
    /\ RoomForWidget
    /\ frame' = [frame EXCEPT ![t] = Enter("window_new", title, w, h)]
    /\ pc' = [pc EXCEPT ![t] = "mw_lock"]
    /\ calls' = calls + 1
    /\ UNCHANGED <<g_running, g_mu, g_verbose, next_id, registry, heap, last,
                   quit_seen, fault>>

\* win->title = title ? title : "";
qt_window_new_title(t) ==
    /\ At(t, "wn_title")
    /\ heap' = [heap EXCEPT ![frame[t].self].title = OrElse(frame[t].s, "")]
    /\ pc' = [pc EXCEPT ![t] = "wn_size"]
    /\ UNCHANGED <<g_running, g_mu, g_verbose, next_id, registry, frame, last,
                   calls, quit_seen, fault>>

\* qt_window_new with the size tests written >= 0
qt_window_new_size_geq(t) ==
    /\ At(t, "wn_size")
    /\ heap' = [heap EXCEPT
                  ![frame[t].self].width = IF frame[t].w >= 0 THEN frame[t].w ELSE 800,
                  ![frame[t].self].height = IF frame[t].ht >= 0 THEN frame[t].ht ELSE 600]
    /\ fault' \in dump_widget(frame[t].self)
    /\ Completes(Done("window_new", NULL, NULL, frame[t].s, frame[t].w,
                      frame[t].ht, frame[t].self))
    /\ frame' = [frame EXCEPT ![t] = NoFrame]
    /\ pc' = [pc EXCEPT ![t] = "ready"]
    /\ UNCHANGED <<g_running, g_mu, g_verbose, next_id, registry, calls,
                   quit_seen>>

\* win->width = (w > 0) ? w : 800; win->height = (h > 0) ? h : 600;
\* dump_widget(win, ...); return (void*)win;
qt_window_new_size(t) ==
    /\ At(t, "wn_size")
    /\ heap' = [heap EXCEPT
                  ![frame[t].self].width = IF frame[t].w > 0 THEN frame[t].w ELSE 800,
                  ![frame[t].self].height = IF frame[t].ht > 0 THEN frame[t].ht ELSE 600]
    /\ fault' \in dump_widget(frame[t].self)
    /\ Completes(Done("window_new", NULL, NULL, frame[t].s, frame[t].w,
                      frame[t].ht, frame[t].self))
    /\ frame' = [frame EXCEPT ![t] = NoFrame]
    /\ pc' = [pc EXCEPT ![t] = "ready"]
    /\ UNCHANGED <<g_running, g_mu, g_verbose, next_id, registry, calls,
                   quit_seen>>

\* ----------------------------------------------------------- qt_button_new
qt_button_new(t, label) ==
    /\ CanCall(t)
    /\ RoomForWidget
    /\ frame' = [frame EXCEPT ![t] = Enter("button_new", label, 0, 0)]
    /\ pc' = [pc EXCEPT ![t] = "mw_lock"]
    /\ calls' = calls + 1
    /\ UNCHANGED <<g_running, g_mu, g_verbose, next_id, registry, heap, last,
                   quit_seen, fault>>

\* qt_button_new giving the Button the default size of a Window
qt_button_new_label_sized(t) ==
    /\ At(t, "bn_label")
    /\ heap' = [heap EXCEPT ![frame[t].self].label = OrElse(frame[t].s, "Button"),
                            ![frame[t].self].width = 800,
                            ![frame[t].self].height = 600]
    /\ fault' \in dump_widget(frame[t].self)
    /\ Completes(Done("button_new", NULL, NULL, frame[t].s, 0, 0, frame[t].self))
    /\ frame' = [frame EXCEPT ![t] = NoFrame]
    /\ pc' = [pc EXCEPT ![t] = "ready"]
    /\ UNCHANGED <<g_running, g_mu, g_verbose, next_id, registry, calls,
                   quit_seen>>

\* btn->label = label ? label : "Button"; dump_widget(btn, ...); return (void*)btn;
qt_button_new_label(t) ==
    /\ At(t, "bn_label")
    /\ heap' = [heap EXCEPT ![frame[t].self].label = OrElse(frame[t].s, "Button")]
    /\ fault' \in dump_widget(frame[t].self)
    /\ Completes(Done("button_new", NULL, NULL, frame[t].s, 0, 0, frame[t].self))
    /\ frame' = [frame EXCEPT ![t] = NoFrame]
    /\ pc' = [pc EXCEPT ![t] = "ready"]
    /\ UNCHANGED <<g_running, g_mu, g_verbose, next_id, registry, calls,
                   quit_seen>>

\* qt_widget_set_parent returning early on a null parent as well, as the real
\* backend does (`if (!c || !p) return;`)
qt_widget_set_parent_needs_parent(t, child, parent) ==
    /\ CanCall(t)
    /\ calls' = calls + 1
    /\ IF child = NULL \/ parent = NULL
       THEN UNCHANGED <<heap, fault>>
       ELSE IF child \in DOMAIN heap
       THEN /\ heap' = [heap EXCEPT ![child].parent = parent]
            /\ fault' \in dump_widget(child)
       ELSE /\ heap' = heap
            /\ fault' \in WildAccess
    /\ Completes(Done("set_parent", child, parent, NullStr, 0, 0, 0))
    /\ UNCHANGED <<g_running, g_mu, g_verbose, next_id, registry, pc, frame,
                   quit_seen>>

\* qt_widget_set_parent with a kind test and cycle detection: a Button is
\* refused as a parent, and so is the child itself or a widget parented to it
qt_widget_set_parent_checked(t, child, parent) ==
    /\ CanCall(t)
    /\ calls' = calls + 1
    /\ IF child = NULL
       THEN UNCHANGED <<heap, fault>>
       ELSE IF child \in DOMAIN heap
       THEN /\ heap' = IF /\ parent \in DOMAIN heap
                          /\ \/ heap[parent].kind = "Button"
                             \/ parent = child
                             \/ heap[parent].parent = child
                       THEN heap
                       ELSE [heap EXCEPT ![child].parent = parent]
            /\ fault' \in dump_widget(child)
       ELSE /\ heap' = heap
            /\ fault' \in WildAccess
    /\ Completes(Done("set_parent", child, parent, NullStr, 0, 0, 0))
    /\ UNCHANGED <<g_running, g_mu, g_verbose, next_id, registry, pc, frame,
                   quit_seen>>

\* ---------------------------------------------------- the widget operations
qt_widget_set_parent(t, child, parent) ==
    /\ CanCall(t)
    /\ calls' = calls + 1
    /\ IF child = NULL
       THEN UNCHANGED <<heap, fault>>
       ELSE IF child \in DOMAIN heap
       THEN /\ heap' = [heap EXCEPT ![child].parent = parent]
            /\ fault' \in dump_widget(child)
       ELSE /\ heap' = heap
            /\ fault' \in WildAccess
    /\ Completes(Done("set_parent", child, parent, NullStr, 0, 0, 0))
    /\ UNCHANGED <<g_running, g_mu, g_verbose, next_id, registry, pc, frame,
                   quit_seen>>

\* qt_widget_show without its `if (!widget) return;`: the null pointer is
\* dereferenced like any other address that holds no Widget
qt_widget_show_unchecked(t, widget) ==
    /\ CanCall(t)
    /\ calls' = calls + 1
    /\ heap' = heap
    /\ IF widget \in DOMAIN heap
       THEN fault' \in dump_widget(widget)
       ELSE fault' \in WildAccess
    /\ Completes(Done("show", widget, NULL, NullStr, 0, 0, 0))
    /\ UNCHANGED <<g_running, g_mu, g_verbose, next_id, registry, pc, frame,
                   quit_seen>>

qt_widget_show(t, widget) ==
    /\ CanCall(t)
    /\ calls' = calls + 1
    /\ heap' = heap
    /\ IF widget = NULL
       THEN fault' = fault
       ELSE IF widget \in DOMAIN heap
       THEN fault' \in dump_widget(widget)
       ELSE fault' \in WildAccess
    /\ Completes(Done("show", widget, NULL, NullStr, 0, 0, 0))
    /\ UNCHANGED <<g_running, g_mu, g_verbose, next_id, registry, pc, frame,
                   quit_seen>>

qt_widget_set_title(t, widget, title) ==
    /\ CanCall(t)
    /\ calls' = calls + 1
    /\ IF widget = NULL
       THEN UNCHANGED <<heap, fault>>
       ELSE IF widget \in DOMAIN heap
       THEN /\ heap' = [heap EXCEPT ![widget].title = OrElse(title, "")]
            /\ fault' \in dump_widget(widget)
       ELSE /\ heap' = heap
            /\ fault' \in WildAccess
    /\ Completes(Done("set_title", widget, NULL, title, 0, 0, 0))
    /\ UNCHANGED <<g_running, g_mu, g_verbose, next_id, registry, pc, frame,
                   quit_seen>>

\* ------------------------------------------------------------------ qt_main
qt_main(t) ==
    /\ CanCall(t)
    /\ frame' = [frame EXCEPT ![t] = Enter("main", NullStr, 0, 0)]
    /\ pc' = [pc EXCEPT ![t] = "main_store"]
    /\ calls' = calls + 1
    /\ UNCHANGED <<g_running, g_mu, g_verbose, next_id, registry, heap, last,
                   quit_seen, fault>>

\* qt_main entering the loop without the store
qt_main_store_missing(t) ==
    /\ At(t, "main_store")
    /\ g_running' = g_running
    /\ quit_seen' = [quit_seen EXCEPT ![t] = FALSE]
    /\ pc' = [pc EXCEPT ![t] = "main_load"]
    /\ UNCHANGED <<g_mu, g_verbose, next_id, registry, heap, frame, last,
                   calls, fault>>

\* g_running.store(true)
qt_main_store(t) ==
    /\ At(t, "main_store")
    /\ g_running' = TRUE
    /\ quit_seen' = [quit_seen EXCEPT ![t] = FALSE]
    /\ pc' = [pc EXCEPT ![t] = "main_load"]
    /\ UNCHANGED <<g_mu, g_verbose, next_id, registry, heap, frame, last,
                   calls, fault>>

\* qt_main polling a plain bool the compiler has hoisted out of the loop: the
\* poll never sees the flag cleared.
qt_main_load_hoisted(t) ==
    /\ At(t, "main_load")
    /\ pc' = [pc EXCEPT ![t] = "main_sleep"]
    /\ UNCHANGED <<g_running, g_mu, g_verbose, next_id, registry, heap, frame,
                   last, calls, quit_seen, fault>>

\* while (g_running.load()) ... ; return 0;   -- one poll of the flag
qt_main_load(t) ==
    /\ At(t, "main_load")
    /\ IF g_running
       THEN /\ pc' = [pc EXCEPT ![t] = "main_sleep"]
            /\ UNCHANGED <<frame, last, quit_seen>>
       ELSE /\ pc' = [pc EXCEPT ![t] = "ready"]
            /\ frame' = [frame EXCEPT ![t] = NoFrame]
            /\ last' = Done("main", NULL, NULL, NullStr, 0, 0, 0)
            /\ quit_seen' = [quit_seen EXCEPT ![t] = FALSE]
    /\ UNCHANGED <<g_running, g_mu, g_verbose, next_id, registry, heap,
                   calls, fault>>

\* qt_main giving up when nanosleep is interrupted: it returns with the flag
\* still set
qt_main_sleep_interrupted(t) ==
    /\ At(t, "main_sleep")
    /\ pc' = [pc EXCEPT ![t] = "ready"]
    /\ frame' = [frame EXCEPT ![t] = NoFrame]
    /\ last' = Done("main", NULL, NULL, NullStr, 0, 0, 0)
    /\ quit_seen' = [quit_seen EXCEPT ![t] = FALSE]
    /\ UNCHANGED <<g_running, g_mu, g_verbose, next_id, registry, heap,
                   calls, fault>>

\* nanosleep(16 ms): the loop body
qt_main_sleep(t) ==
    /\ At(t, "main_sleep")
    /\ pc' = [pc EXCEPT ![t] = "main_load"]
    /\ UNCHANGED <<g_running, g_mu, g_verbose, next_id, registry, heap, frame,
                   last, calls, quit_seen, fault>>

\* ------------------------------------------------------------ qt_main_quit
\* qt_main_quit flipping the flag instead of clearing it
qt_main_quit_toggle(t) ==
    /\ CanCall(t)
    /\ g_running' = ~g_running
    /\ quit_seen' = [u \in Threads |-> pc[u] \in {"main_load", "main_sleep"}]
    /\ last' = Done("main_quit", NULL, NULL, NullStr, 0, 0, 0)
    /\ calls' = calls + 1
    /\ UNCHANGED <<g_mu, g_verbose, next_id, registry, heap, pc, frame, fault>>

\* g_running.store(false)
qt_main_quit(t) ==
    /\ CanCall(t)
    /\ g_running' = FALSE
    /\ quit_seen' = [u \in Threads |-> pc[u] \in {"main_load", "main_sleep"}]
    /\ last' = Done("main_quit", NULL, NULL, NullStr, 0, 0, 0)
    /\ calls' = calls + 1
    /\ UNCHANGED <<g_mu, g_verbose, next_id, registry, heap, pc, frame, fault>>

\* ------------------------------------------------------------ the program
\* The host's threads call the widget and loop functions in any order, with
\* the handles it was given.
Next ==
    \/ \E t \in Threads, title \in TitleArgs, w \in WidthArgs, h \in HeightArgs :
          qt_window_new(t, title, w, h)
    \/ \E t \in Threads, label \in LabelArgs : qt_button_new(t, label)
    \/ \E t \in Threads : make_widget_lock(t)
    \/ \E t \in Threads : make_widget_read(t)
    \/ \E t \in Threads : make_widget_write(t)
    \/ \E t \in Threads : make_widget_push(t)
    \/ \E t \in Threads : qt_window_new_title(t)
    \/ \E t \in Threads : qt_window_new_size(t)
    \/ \E t \in Threads : qt_button_new_label(t)
    \/ \E t \in Threads, child \in HandleArgs, parent \in HandleArgs :
          qt_widget_set_parent(t, child, parent)
    \/ \E t \in Threads, widget \in HandleArgs : qt_widget_show(t, widget)
    \/ \E t \in Threads, widget \in HandleArgs, title \in SetTitleArgs :
          qt_widget_set_title(t, widget, title)
    \/ \E t \in Threads : qt_main(t)
    \/ \E t \in Threads : qt_main_store(t)
    \/ \E t \in Threads : qt_main_load(t)
    \/ \E t \in Threads : qt_main_sleep(t)
    \/ \E t \in Threads : qt_main_quit(t)

Spec == Init /\ [][Next]_vars

\* The same program under a host that may pass a foreign pointer as a handle.
WildNext ==
    \/ \E t \in Threads, title \in TitleArgs, w \in WidthArgs, h \in HeightArgs :
          qt_window_new(t, title, w, h)
    \/ \E t \in Threads, label \in LabelArgs : qt_button_new(t, label)
    \/ \E t \in Threads : make_widget_lock(t)
    \/ \E t \in Threads : make_widget_read(t)
    \/ \E t \in Threads : make_widget_write(t)
    \/ \E t \in Threads : make_widget_push(t)
    \/ \E t \in Threads : qt_window_new_title(t)
    \/ \E t \in Threads : qt_window_new_size(t)
    \/ \E t \in Threads : qt_button_new_label(t)
    \/ \E t \in Threads, child \in WildHandleArgs, parent \in WildHandleArgs :
          qt_widget_set_parent(t, child, parent)
    \/ \E t \in Threads, widget \in WildHandleArgs : qt_widget_show(t, widget)
    \/ \E t \in Threads, widget \in WildHandleArgs, title \in SetTitleArgs :
          qt_widget_set_title(t, widget, title)
    \/ \E t \in Threads : qt_main(t)
    \/ \E t \in Threads : qt_main_store(t)
    \/ \E t \in Threads : qt_main_load(t)
    \/ \E t \in Threads : qt_main_sleep(t)
    \/ \E t \in Threads : qt_main_quit(t)

WildSpec == Init /\ [][WildNext]_vars

\* The verbosity switch, with operations that emit diagnostic records.
VerboseNext ==
    \/ \E t \in Threads, on \in VerboseArgs : qt_set_verbose(t, on)
    \/ \E t \in Threads, v \in EnvValues : qt_init(t, v)
    \/ \E t \in Threads, widget \in HandleArgs : qt_widget_show(t, widget)
    \/ \E t \in Threads : qt_main(t)
    \/ \E t \in Threads : qt_main_store(t)
    \/ \E t \in Threads : qt_main_load(t)
    \/ \E t \in Threads : qt_main_sleep(t)
    \/ \E t \in Threads : qt_main_quit(t)

VerboseSpec == Init /\ [][VerboseNext]_vars

\* Threads are scheduled fairly: a thread inside qt_main keeps polling.
FairSpec ==
    /\ Spec
    /\ \A t \in Threads : WF_vars(qt_main_load(t)) /\ WF_vars(qt_main_sleep(t))

\* ================================================================ properties
Range(f) == {f[i] : i \in DOMAIN f}

\* The thread is blocked in qt_main's polling loop.
InLoop(t) == pc[t] \in {"main_load", "main_sleep"}

\* The step is a call of the single-step facade function `op`.
IsCall(op) == calls' = calls + 1 /\ pc' = pc /\ last'.op = op

\* The widgets whose make_widget call has completed.
Allocated ==
    {a \in DOMAIN heap :
        \A t \in Threads :
            ~(pc[t] \in {"mw_read", "mw_write", "mw_push"} /\ frame[t].self = a)}

\* C1: the ids of the N widgets whose allocation has completed are exactly
\* 1..N, under every interleaving of the allocating threads: none twice, none
\* skipped.
C1_IdsExactlyOneToN ==
    {heap[a].id : a \in Allocated} = 1..Cardinality(Allocated)

\* Two allocations have completed.
C1_Witness ==
    /\ Cardinality(Allocated) >= 2
    /\ \A t \in Threads : pc[t] \notin {"mw_lock", "mw_read", "mw_write", "mw_push"}

\* C2: a thread in the polling loop with the flag cleared by qt_main_quit leaves
\* the loop, unless another qt_main sets the flag again first; and the poll that
\* reads the cleared flag is its last.
C2_QuitEndsMain ==
    /\ \A t \in Threads :
         (InLoop(t) /\ ~g_running) ~> (~InLoop(t) \/ g_running)
    /\ [][\A t \in Threads :
            (pc[t] = "main_load" /\ ~g_running /\ pc'[t] # pc[t])
               => pc'[t] = "ready"]_vars

\* A thread is still in the loop after a qt_main_quit cleared the flag.
C2_Witness ==
    \E t \in Threads : InLoop(t) /\ quit_seen[t] /\ ~g_running

\* C3: qt_main_quit on an Idle loop leaves it Idle; qt_main's store sets
\* Running whatever came before; and qt_main returns only after a qt_main_quit
\* that followed its own store.
C3_QuitNotRemembered ==
    [][/\ (IsCall("main_quit") /\ ~g_running) => ~g_running'
       /\ \A t \in Threads :
            /\ (pc[t] = "main_store" /\ pc'[t] # pc[t])
                  => (g_running' /\ pc'[t] = "main_load")
            /\ (InLoop(t) /\ pc'[t] = "ready") => (quit_seen[t] /\ ~g_running)
      ]_vars

\* The first call was a qt_main_quit (on the Idle loop), the second a qt_main,
\* which is now blocked in the loop with the flag set.
C3_Witness ==
    /\ calls = 2
    /\ \E t \in Threads :
         /\ pc[t] = "main_sleep" /\ frame[t].q /\ ~frame[t].r
         /\ g_running /\ ~quit_seen[t]

\* C4: a qt_main call made while the loop is Running is rejected or returns at
\* once: it never blocks in the polling loop.
C4_NestedMainDoesNotBlock ==
    \A t \in Threads : frame[t].r => pc[t] # "main_sleep"

\* C5: qt_main_quit leaves the loop Idle from either state and changes no
\* widget, nor the registry or the counter; on an Idle loop it changes nothing
\* of the program's state.
C5_QuitSetsIdle ==
    [][IsCall("main_quit") =>
         /\ ~g_running'
         /\ UNCHANGED <<heap, registry, next_id>>
         /\ ~g_running => UNCHANGED <<g_running, g_mu, g_verbose, pc, frame, fault>>
      ]_vars

\* qt_main_quit has just stopped a Running loop, with widgets in the registry.
C5_Witness ==
    /\ last.op = "main_quit" /\ ~g_running
    /\ registry # <<>>
    /\ \E t \in Threads : InLoop(t) /\ quit_seen[t]

\* C6: every handle a constructor returns is non-null and in the registry, no
\* handle is in the registry twice, and the widget it points to has the kind of
\* the constructor that made it.
C6_HandlesDistinctAndKinded ==
    /\ \A i, j \in DOMAIN registry : registry[i] = registry[j] => i = j
    /\ \A a \in Returned : a # NULL /\ a \in Range(registry)
    /\ \A t \in Threads :
         pc[t] \in {"wn_title", "wn_size"} => heap[frame[t].self].kind = "Window"
    /\ \A t \in Threads :
         pc[t] = "bn_label" => heap[frame[t].self].kind = "Button"
    /\ last.op = "window_new" =>
         last.ret \in Returned /\ heap[last.ret].kind = "Window"
    /\ last.op = "button_new" =>
         last.ret \in Returned /\ heap[last.ret].kind = "Button"

\* qt_button_new has returned the second handle, the first being a Window.
C6_Witness ==
    /\ last.op = "button_new"
    /\ Len(registry) = 2
    /\ \E a \in Returned : heap[a].kind = "Window"

\* The registry and the counter agree: every id in [1, next_id) is the id of
\* exactly one widget of the registry, and every widget of the registry has
\* such an id.
RegistryAgrees ==
    /\ \A i \in 1..(next_id - 1) :
         Cardinality({k \in DOMAIN registry : heap[registry[k]].id = i}) = 1
    /\ \A k \in DOMAIN registry : heap[registry[k]].id \in 1..(next_id - 1)

\* C7 as stated: the registry and the counter agree in every reachable state.
C7_AgreesInEveryState == RegistryAgrees

\* Every id in [1, next_id) is the id of exactly one Widget that exists.
IssuedIdsLive ==
    \A i \in 1..(next_id - 1) :
        Cardinality({a \in DOMAIN heap : heap[a].id = i}) = 1

\* C7, amended: every issued id is the id of exactly one live widget; the
\* registry and the counter agree whenever g_mu is not held; a widget added to
\* the registry stays, and its id and kind never change.
C7_AgreesWhenUnlocked ==
    /\ [](IssuedIdsLive /\ (g_mu = Unlocked => RegistryAgrees))
    /\ [][/\ Len(registry') >= Len(registry)
          /\ \A k \in DOMAIN registry :
               /\ registry'[k] = registry[k]
               /\ heap'[registry[k]].id = heap[registry[k]].id
               /\ heap'[registry[k]].kind = heap[registry[k]].kind
         ]_vars

\* Two widgets are registered and one of them has since been retitled.
C7_Witness ==
    /\ Len(registry) = 2 /\ next_id = 3 /\ g_mu = Unlocked
    /\ \E a \in Returned : heap[a].title = "Confirm"

\* C8: qt_widget_set_parent(child, NULL) on a widget leaves child.parent null
\* and changes nothing else in any widget.
C8_DetachClearsParent ==
    [][\A c \in DOMAIN heap :
         (IsCall("set_parent") /\ last'.h = c /\ last'.p = NULL)
            => heap' = [heap EXCEPT ![c].parent = NULL]
      ]_vars

\* qt_widget_set_parent(child, NULL) has just returned for a widget.
C8_Witness ==
    /\ last.op = "set_parent" /\ last.p = NULL
    /\ last.h \in DOMAIN heap
    /\ heap[last.h].parent = NULL

\* C9: after qt_widget_set_parent(B, W) and qt_widget_set_title(B, "Confirm") on
\* a Button B made with label "OK", B.parent is W and B.label is "Confirm".
C9_TitleBecomesLabel ==
    \A b, w \in DOMAIN heap :
        ( /\ heap[w].kind = "Window" /\ heap[b].kind = "Button"
          /\ heap[b].parent = w
          /\ last = Done("set_title", b, NULL, Str("Confirm"), 0, 0, 0) )
        => heap[b].label = "Confirm"

\* C10: the Window qt_window_new returned has the given width and height where
\* they are positive, 800 and 600 where they are not; the handle is not null.
C10_WindowSizeDefaults ==
    last.op = "window_new" =>
        /\ last.ret # NULL
        /\ last.ret \in DOMAIN heap
        /\ heap[last.ret].width = (IF last.w > 0 THEN last.w ELSE 800)
        /\ heap[last.ret].height = (IF last.ht > 0 THEN last.ht ELSE 600)

\* qt_window_new(_, 0, 480) has returned: a defaulted width beside a given height.
C10_Witness ==
    /\ last.op = "window_new" /\ last.w <= 0 /\ last.ht > 0
    /\ heap[last.ret].width = 800 /\ heap[last.ret].height = last.ht

\* C11: the Button qt_button_new returned has the label "Button" when the
\* label argument was null and also when it was the empty string; otherwise it
\* has the label given.
C11_EmptyLabelDefaults ==
    last.op = "button_new" =>
        heap[last.ret].label =
            (IF last.s \in {NullStr, Str("")} THEN "Button" ELSE last.s[1])

\* The step is a call of qt_widget_show, qt_widget_set_title or
\* qt_widget_set_parent with a null widget (child) handle.
NullHandleCall ==
    /\ calls' = calls + 1 /\ pc' = pc
    /\ last'.op \in {"show", "set_title", "set_parent"}
    /\ last'.h = NULL

\* C12: qt_widget_show(NULL), qt_widget_set_title(NULL, text) and
\* qt_widget_set_parent(NULL, W) leave the registry, the counter, the run flag
\* and every field of every widget as they were, and no call made with null or
\* returned handles faults.
C12_NullHandleIsNoOp ==
    [][/\ NullHandleCall =>
            UNCHANGED <<g_running, g_mu, g_verbose, next_id, registry, heap,
                        pc, frame, quit_seen, fault>>
       /\ ~fault'
      ]_vars

\* qt_widget_set_parent(NULL, W) has just returned for a widget W that another
\* widget was parented to before.
C12_Witness ==
    /\ last.op = "set_parent" /\ last.h = NULL
    /\ last.p \in DOMAIN heap
    /\ \E a \in DOMAIN heap : heap[a].parent # NULL

\* C13: qt_widget_set_parent, qt_widget_show and qt_widget_set_title given a
\* non-null handle that no constructor returned change no widget, nor the
\* registry, the counter or the run flag, and no call raises a fault.
C13_ForeignHandleIgnored ==
    /\ [][(calls' = calls + 1 /\ pc' = pc /\ last'.h = Foreign)
             => UNCHANGED <<heap, registry, next_id, g_running>>]_vars
    /\ [](~fault)

\* C14: once qt_init has read QT_STUB_VERBOSE, diagnostics are disabled exactly
\* when its value is "0"; with any other value, and with the variable absent,
\* they are enabled, whatever qt_set_verbose set before.
C14_InitDecidesVerbosity ==
    last.op = "init" => (g_verbose <=> last.s # Str("0"))

\* C15: qt_widget_set_parent(child, parent) on a widget stores parent in
\* child.parent whatever the kinds and the parents already stored (a Button as
\* parent, the child itself, a widget parented to the child), and changes no
\* other field of any widget, nor the registry, the counter or the run flag.
C15_SetParentUnconditional ==
    [][\A c \in DOMAIN heap :
         (IsCall("set_parent") /\ last'.h = c)
            => /\ heap' = [heap EXCEPT ![c].parent = last'.p]
               /\ UNCHANGED <<registry, next_id, g_running>>
      ]_vars

\* A Window is parented to a Button and that Button to the Window: the second
\* qt_widget_set_parent has just closed the cycle.
C15_Witness ==
    /\ last.op = "set_parent"
    /\ \E a, b \in DOMAIN heap :
         /\ heap[a].kind = "Window" /\ heap[b].kind = "Button"
         /\ heap[a].parent = b /\ heap[b].parent = a

\* C16: in every state every widget that is not a Window has width 0 and
\* height 0, and no step changes the width or the height of a widget whose
\* constructor has returned.
C16_SizeOnlyAtWindowCreation ==
    /\ [](\A a \in DOMAIN heap :
            heap[a].kind # "Window" => heap[a].width = 0 /\ heap[a].height = 0)
    /\ [][\A a \in Returned :
            /\ heap'[a].width = heap[a].width
            /\ heap'[a].height = heap[a].height
         ]_vars

\* A Window made with a given width has been retitled since its constructor
\* returned, and a Button exists beside it.
C16_Witness ==
    /\ last.op = "set_title" /\ last.h \in Returned
    /\ heap[last.h].kind = "Window" /\ heap[last.h].width = 640
    /\ \E b \in Returned : heap[b].kind = "Button"

\* C17: a thread that was blocked in qt_main when a qt_main_quit cleared the
\* flag returns from qt_main eventually, also when another thread's qt_main
\* sets the flag again before the blocked thread polls it.
C17_QuitNotLost ==
    \A t \in Threads : (InLoop(t) /\ quit_seen[t]) ~> ~InLoop(t)

\* C18: in every state the run flag is set only if some thread is inside
\* qt_main, past its store(true) and not yet returned.
C18_RunningHasMainThread ==
    g_running => \E t \in Threads : InLoop(t)

\* One thread's qt_main has returned after a qt_main_quit, and another thread's
\* qt_main has set the flag again since and is polling it.
C18_Witness ==
    /\ g_running /\ last.op = "main"
    /\ \E t \in Threads : InLoop(t) /\ ~quit_seen[t]

\* C19: in every state, those where a constructor has pushed its widget and
\* released g_mu but not yet returned included, every Window in the registry
\* has width > 0 and height > 0, and every Button in the registry has had its
\* label assigned.
C19_RegisteredIsInitialised ==
    \A k \in DOMAIN registry :
        LET a == registry[k] IN
        /\ heap[a].kind = "Window" => heap[a].width > 0 /\ heap[a].height > 0
        /\ heap[a].kind = "Button" =>
              \A t \in Threads : ~(pc[t] = "bn_label" /\ frame[t].self = a)
====
